---- MODULE Spec2Model ----
(***************************************************************************)
(* InterviewReader: OAuth login, session store, session lifecycle and the  *)
(* authentication gate.  The datastore (users, sessions) is the state; one *)
(* action per HTTP handler or background job.  A handler runs to its       *)
(* response before the next request starts (requests do not overlap), and  *)
(* any datastore call it makes may fail.  SpecRace alone lets a gate       *)
(* request stay in flight, between its read and its save of the session,   *)
(* while other handlers run; SpecOverlap alone lets two logins overlap.    *)
(* SpecJob is the periodic cleanup job with its timer and its retries,     *)
(* SpecOAuth the OAuth callbacks under any configured token lifetimes,     *)
(* SpecGate the gate next to optionalAuth, SpecLive the store under a      *)
(* cleanup that keeps running, SpecIdentity logins of accounts that share  *)
(* an id or an email, SpecStale logins that save a user read earlier, and  *)
(* SpecRepeat a logout that is sent twice.                                 *)
(***************************************************************************)
EXTENDS Integers, Sequences, FiniteSets, TLC

VARIABLES pc, steps, now, ticks, env, users, sessions, issued, resp, tok, held,
          jar, job, inflight, revoked, docs

vars == <<pc, steps, now, ticks, env, users, sessions, issued, resp, tok, held,
          jar, job, inflight, revoked, docs>>

(***************************************************************************)
(* Bounds of the model                                                     *)
(***************************************************************************)
\* clock readings per day: logins a moment apart get different tokens
Day == 2
\* Spec: requests and operator actions, and advances of the clock
MaxSteps == 4
MaxTicks == 1
\* SpecCap: one user, enough logins to reach the cap
MaxCapSteps == 4
MaxCapTicks == 3
\* SpecTok: advances of the clock
MaxTokTicks == 2
\* SpecNoFault: no datastore call fails
MaxQuietSteps == 3
MaxQuietTicks == 1
\* SpecRace: requests, with gate requests in flight, and advances of the clock
MaxRaceSteps == 4
MaxRaceTicks == 1
\* SpecJob: logins, advances of the clock, calls of startSessionCleanup and
\* firings of its timer
MaxJobSteps == 2
MaxJobTicks == 2
MaxStarts == 2
MaxFires == 2
\* SpecOverlap: datastore phases of logins that may overlap, and advances of
\* the clock
MaxOverlapSteps == 8
MaxOverlapTicks == 4
\* SpecOAuth: callbacks, and advances of the clock
MaxOAuthSteps == 3
MaxOAuthTicks == 1
\* SpecGate: requests through the gate and through optionalAuth
MaxGateSteps == 3
MaxGateTicks == 1
\* SpecLive: requests and advances of the clock, with cleanup that keeps running
MaxLiveSteps == 3
MaxLiveTicks == 2
\* logins of accounts that share an id or an email
MaxIdentitySteps == 3
MaxIdentityTicks == 1
\* logins that save a user document read before another login's save
MaxStaleSteps == 5
MaxStaleTicks == 1
\* a logout that is sent again
MaxRepeatSteps == 4
MaxRepeatTicks == 1

(***************************************************************************)
(* Program constants                                                       *)
(***************************************************************************)
MAX_SESSIONS_PER_USER == 3
\* CLEANUP_CONFIG
MAX_RETRY_ATTEMPTS == 3
REFRESH_TOKEN_EXPIRY_DAYS == 10
\* expiresIn of the tokens when the environment sets none, in days: '1d'
\* and '10d'
ACCESS_TOKEN_EXPIRY == 1
REFRESH_TOKEN_EXPIRY == 10
\* SESSION_CONFIG: the max-age of the accessToken cookie, in days
ACCESS_TOKEN_EXPIRY_DAYS == 1

Secrets == {"k1", "k2"}

NoId == "null"
NoEmail == "null"
NoUser == 0

Days(n) == n * Day

\* an absent cookie or header, and a string that is not a token of this server
NoToken == [_id |-> NoUser, type |-> "none", iat |-> 0, exp |-> 0, key |-> "none"]
Garbage == [_id |-> NoUser, type |-> "garbage", iat |-> 0, exp |-> 0, key |-> "none"]

(***************************************************************************)
(* Token Issuer.  A signed token is its payload plus the secret it was     *)
(* signed with.  Issuer, audience and algorithm are the same for both      *)
(* kinds of token, so they decide nothing and are left out.                *)
(***************************************************************************)
IsJwt(t) == t \notin {NoToken, Garbage}

\* jwt.sign(payload, secret, {expiresIn}): iat = now, exp = iat + expiresIn
Sign(payload, secret, expiresIn, t) ==
    [_id |-> payload._id, type |-> payload.type, iat |-> t,
     exp |-> t + Days(expiresIn), key |-> secret]

\* { _id: userId, type: kind, ...additionalPayload }: later keys override
Spread(base, add) ==
    [k \in DOMAIN base |-> IF k \in DOMAIN add THEN add[k] ELSE base[k]]

generateAccessToken(userId, additionalPayload, e, t) ==
    Sign(Spread([_id |-> userId, type |-> "access"], additionalPayload),
         e.ACCESS_TOKEN_SECRET, e.ACCESS_TOKEN_EXPIRY, t)

generateRefreshToken(userId, additionalPayload, e, t) ==
    Sign(Spread([_id |-> userId, type |-> "refresh"], additionalPayload),
         e.REFRESH_TOKEN_SECRET, e.REFRESH_TOKEN_EXPIRY, t)

\* additionalPayload = {}
EmptyPayload == [k \in {} |-> "x"]

generateTokens(userId, e, t) ==
    [accessToken |-> generateAccessToken(userId, EmptyPayload, e, t),
     refreshToken |-> generateRefreshToken(userId, EmptyPayload, e, t)]

\* jwt.verify(token, secret): the name of the error, or "ok"
JwtVerify(token, secret, t) ==
    IF ~IsJwt(token) THEN "JsonWebTokenError"
    ELSE IF token.key # secret THEN "JsonWebTokenError"
    ELSE IF t >= token.exp THEN "TokenExpiredError"
    ELSE "ok"

\* verifyAccessToken: every failure is rethrown as a plain Error, whose name
\* is "Error"
verifyAccessToken(token, e, t) ==
    LET r == JwtVerify(token, e.ACCESS_TOKEN_SECRET, t) IN
    IF r = "ok" /\ token.type = "access"
        THEN [ok |-> TRUE, name |-> "ok", message |-> "ok"]
    ELSE IF r = "TokenExpiredError"
        THEN [ok |-> FALSE, name |-> "Error", message |-> "Access token has expired"]
    ELSE IF r = "JsonWebTokenError"
        THEN [ok |-> FALSE, name |-> "Error", message |-> "Invalid access token"]
    ELSE [ok |-> FALSE, name |-> "Error",
          message |-> "Token verification failed: Invalid token type"]

verifyRefreshToken(token, e, t) ==
    LET r == JwtVerify(token, e.REFRESH_TOKEN_SECRET, t) IN
    IF r = "ok" /\ token.type = "refresh"
        THEN [ok |-> TRUE, name |-> "ok", message |-> "ok"]
    ELSE IF r = "TokenExpiredError"
        THEN [ok |-> FALSE, name |-> "Error", message |-> "Refresh token has expired"]
    ELSE IF r = "JsonWebTokenError"
        THEN [ok |-> FALSE, name |-> "Error", message |-> "Invalid refresh token"]
    ELSE [ok |-> FALSE, name |-> "Error",
          message |-> "Token verification failed: Invalid token type"]

\* getUserIdFromToken (logout controller): decoded._id, or null; the type of
\* the token is not looked at
getUserIdFromToken(accessToken, e, t) ==
    IF JwtVerify(accessToken, e.ACCESS_TOKEN_SECRET, t) = "ok"
        THEN accessToken._id ELSE NoUser

(***************************************************************************)
(* Datastore: User and Session collections                                 *)
(***************************************************************************)
providerIdField(provider) == IF provider = "google" THEN "googleId" ELSE "githubId"

\* userSchema defaults: isActive true, lastLoginAt Date.now, loginCount 0
NewUser(provider, id, email) ==
    [email |-> email,
     googleId |-> IF provider = "google" THEN id ELSE NoId,
     githubId |-> IF provider = "github" THEN id ELSE NoId,
     isActive |-> TRUE, lastLoginAt |-> now, loginCount |-> 0]

\* the _id of a user is its position in users
UserIds == DOMAIN users

\* User.findOne({ $or: [{ [providerIdField]: id }, { email }] }): the matches
findExistingUser(provider, id, email) ==
    {u \in UserIds : users[u][providerIdField(provider)] = id \/ users[u].email = email}

\* an updateLoginInfo that sets the timestamp and leaves the counter alone
updateLoginInfoNoCount(user) == [user EXCEPT !.lastLoginAt = now]

\* userSchema.methods.updateLoginInfo
updateLoginInfo(user) == [user EXCEPT !.lastLoginAt = now, !.loginCount = @ + 1]

\* a decrement without the loginCount > 0 test
decrementLoginCountUnguarded(user) == [user EXCEPT !.loginCount = @ - 1]

\* userSchema.methods.decrementLoginCount
decrementLoginCount(user) ==
    IF user.loginCount > 0 THEN [user EXCEPT !.loginCount = @ - 1] ELSE user

\* { $or: [{ expiresAt: { $lt: now } }, { isActive: false }] }
Stale(s, t) == s.expiresAt < t \/ ~s.isActive

\* a deleteMany whose filter is { isActive: false } alone
cleanInactiveOnly(S, t) == {s \in S : s.isActive}

\* a deleteMany whose filter is { expiresAt: { $lt: now } } alone
cleanExpiredOnly(S, t) == {s \in S : s.expiresAt >= t}

\* Session.cleanExpiredSessions: deleteMany of every stale session
cleanExpiredSessions(S, t) == {s \in S : ~Stale(s, t)}

\* Session.getActiveSessions (as a set; the sort is applied by the caller)
getActiveSessions(S, userId, t) ==
    {s \in S : s.userId = userId /\ s.isActive /\ s.expiresAt > t}

\* a sort by lastUsed ascending in place of descending
OldestChoices(A, n) ==
    {K \in SUBSET A : /\ Cardinality(K) = n
                      /\ \A k \in K : \A d \in A \ K : k.lastUsed <= d.lastUsed}

\* sessions.slice(0, n) of the list sorted by lastUsed descending: every way
\* the sort may order sessions with equal lastUsed
NewestChoices(A, n) ==
    {K \in SUBSET A : /\ Cardinality(K) = n
                      /\ \A k \in K : \A d \in A \ K : k.lastUsed >= d.lastUsed}

\* slice(maxSessions) in place of slice(maxSessions - 1)
KeepChoicesOffByOne(S, userId, maxSessions, t) ==
    LET A == getActiveSessions(S, userId, t) IN
    IF Cardinality(A) >= maxSessions THEN NewestChoices(A, maxSessions) ELSE {A}

\* Session.deactivateOldSessions: the sessions that stay active
KeepChoices(S, userId, maxSessions, t) ==
    LET A == getActiveSessions(S, userId, t) IN
    IF Cardinality(A) >= maxSessions THEN NewestChoices(A, maxSessions - 1) ELSE {A}

\* a date field that is not stored on the record
NoDate == -1

\* the paths sessionSchema declares (timestamps: true adds the last two)
SessionPaths == {"userId", "refreshToken", "accessToken", "provider", "deviceInfo",
                 "isActive", "lastUsed", "expiresAt", "createdAt", "updatedAt"}

\* the schema is strict: an update is cast to it, and a path it does not
\* declare is dropped from the update
castUpdate(update) == [k \in DOMAIN update \cap SessionPaths |-> update[k]]

\* $set of the cast update on one document
applyUpdate(s, update) ==
    LET u == castUpdate(update) IN
    [s EXCEPT !.isActive = IF "isActive" \in DOMAIN u THEN u.isActive ELSE @,
              !.loggedOutAt = IF "loggedOutAt" \in DOMAIN u THEN u.loggedOutAt ELSE @]

\* Session.updateMany(filter, update) on the sessions D the filter matches
updateMany(S, D, update) == {IF s \in D THEN applyUpdate(s, update) ELSE s : s \in S}

\* updateMany(filter, { isActive: false }) on the sessions D
Deactivate(S, D) ==
    {IF s \in D THEN [s EXCEPT !.isActive = FALSE] ELSE s : s \in S}

\* a cap that deactivates nothing
deactivateNoSessions(S, userId, t, keep) == S

deactivateOldSessions(S, userId, t, keep) ==
    Deactivate(S, getActiveSessions(S, userId, t) \ keep)

\* createUserSession: the document handed to Session.create; its _id is the
\* ordinal of the request that creates it
NewSession(userId, tokens, t) ==
    [_id |-> steps + 1, userId |-> userId,
     refreshToken |-> tokens.refreshToken, accessToken |-> tokens.accessToken,
     isActive |-> TRUE, lastUsed |-> t,
     expiresAt |-> t + Days(REFRESH_TOKEN_EXPIRY_DAYS), loggedOutAt |-> NoDate]

\* a refreshToken field without unique: true
NoUniqueIndex(S, refreshToken) == FALSE

\* refreshToken: { unique: true }: Session.create is rejected when a stored
\* session holds the same refreshToken
DuplicateKey(S, refreshToken) == \E s \in S : s.refreshToken = refreshToken

\* findOne / deleteOne matched nothing
NoSession == [_id |-> 0, userId |-> NoUser, refreshToken |-> NoToken,
              accessToken |-> NoToken, isActive |-> FALSE, lastUsed |-> 0,
              expiresAt |-> 0, loggedOutAt |-> NoDate]

(***************************************************************************)
(* Requests and responses                                                  *)
(***************************************************************************)
\* the cookies and the Authorization header of a request
Req(rt, at, hdr) == [rt |-> rt, at |-> at, hdr |-> hdr]

NoReq == Req(NoToken, NoToken, NoToken)

\* number of datastore calls a handler issued before it first cleared the
\* cookies (all of them when it never cleared them)
RECURSIVE DbBeforeClear(_)
DbBeforeClear(log) ==
    IF log = <<>> \/ Head(log) = "clearCookie" THEN 0
    ELSE 1 + DbBeforeClear(Tail(log))

\* number of entries of a handler's log that are among the calls named
RECURSIVE Count(_, _)
Count(log, calls) ==
    IF log = <<>> THEN 0
    ELSE (IF Head(log) \in calls THEN 1 ELSE 0) + Count(Tail(log), calls)

\* the response of the last request: the request and the datastore calls that
\* failed during it, status, redirect code or message, the user the request
\* acted for, body fields, cookies, and what the handler's log shows
Resp(op, req, F, status, code, user, n, err, cookies, log) ==
    [op |-> op, req |-> req, faults |-> F, status |-> status, code |-> code,
     user |-> user, sessionsDeleted |-> n, error |-> err, cookies |-> cookies,
     early |-> DbBeforeClear(log), redirects |-> Count(log, {"redirect"}),
     http |-> Count(log, {"axios.post", "axios.get"})]

NoResp == Resp("none", NoReq, {}, 0, "none", NoUser, 0, FALSE, "none", <<>>)

(***************************************************************************)
(* loginOrCreateUser: find or create the user, update the login info, run  *)
(* the cleanup and the cap, mint the tokens, store the session, set the    *)
(* cookies.  fp names the datastore call that fails ("none": no failure);  *)
(* every write made before the failing call is kept.                       *)
(***************************************************************************)
\* the failures injected into logins
LoginFaults == {"none", "User.findOne", "User.validate", "User.save:login",
                "Session.create"}

\* the Set-Cookie headers of a response: no auth cookie, or the two tokens
\* with their max-age
Jar(accessToken, refreshToken, accessMaxAge, refreshMaxAge) ==
    [accessToken |-> accessToken, refreshToken |-> refreshToken,
     accessMaxAge |-> accessMaxAge, refreshMaxAge |-> refreshMaxAge]

NoJar == Jar(NoToken, NoToken, 0, 0)

\* the two cookies with their values interchanged
setSecureCookiesSwapped(accessToken, refreshToken) ==
    Jar(refreshToken, accessToken, Days(ACCESS_TOKEN_EXPIRY_DAYS),
        Days(REFRESH_TOKEN_EXPIRY_DAYS))

\* maxAge: SESSION_CONFIG.*_EXPIRY_DAYS * 24 * 60 * 60 * 1000
setSecureCookies(accessToken, refreshToken) ==
    Jar(accessToken, refreshToken, Days(ACCESS_TOKEN_EXPIRY_DAYS),
        Days(REFRESH_TOKEN_EXPIRY_DAYS))

\* the outcome of one login: the stores after it, the cookies and the
\* redirect; every failure ends in handleErrorRedirect
LoginOut(U, S, I, code, user, cookies, log) ==
    [users |-> U, sessions |-> S, issued |-> I, code |-> code, user |-> user,
     cookies |-> cookies, jar |-> NoJar,
     log |-> IF code = "success" THEN log ELSE log \o <<"redirect">>]

\* performSessionCleanup, generateTokens, createUserSession, setSecureCookies
\* for the resolved user u
loginSession(U, u, keep, fp, L2) ==
    LET S1 == cleanExpiredSessions(sessions, now)
        L3 == L2 \o <<"Session.deleteMany">>
        L4 == L3 \o <<"Session.find">>
        atCap == Cardinality(getActiveSessions(S1, u, now)) >= MAX_SESSIONS_PER_USER
        S2 == deactivateOldSessions(S1, u, now, keep)
        L5 == IF atCap THEN L4 \o <<"Session.updateMany">> ELSE L4
        tokens == generateTokens(u, env, now)
        new == NewSession(u, tokens, now)
        L6 == L5 \o <<"Session.create">>
    IN
    IF fp = "Session.deleteMany"
        THEN LoginOut(U, sessions, issued, "login_failed", u, "none", L3)
    ELSE IF fp = "Session.find"
        THEN LoginOut(U, S1, issued, "login_failed", u, "none", L4)
    ELSE IF fp = "Session.updateMany" /\ atCap
        THEN LoginOut(U, S1, issued, "login_failed", u, "none", L5)
    ELSE IF fp = "Session.create"
        THEN LoginOut(U, S2, issued, "login_failed", u, "none", L6)
    ELSE IF DuplicateKey(S2, tokens.refreshToken)
        \* error.code === 11000
        THEN LoginOut(U, S2, issued, "email_exists", u, "none", L6)
    ELSE [LoginOut(U, S2 \cup {new},
                   issued \cup {tokens.accessToken, tokens.refreshToken},
                   "success", u, "set", L6 \o <<"setCookies", "redirect">>)
            EXCEPT !.jar = setSecureCookies(tokens.accessToken, tokens.refreshToken)]

\* u0 is the user findOne returned (NoUser: none)
loginOrCreateUser(provider, id, email, u0, keep, fp) ==
    LET L1 == <<"User.findOne">>
        f  == providerIdField(provider)
        created == Append(users, NewUser(provider, id, email))
        needsLink == u0 # NoUser /\ users[u0][f] = NoId
        linked == [users EXCEPT ![u0][f] = id]
        u  == IF u0 = NoUser THEN Len(users) + 1 ELSE u0
        U1 == IF u0 = NoUser THEN created ELSE IF needsLink THEN linked ELSE users
        L2 == IF u0 = NoUser THEN L1 \o <<"User.create">>
              ELSE IF needsLink THEN L1 \o <<"User.save">> ELSE L1
        U2 == [U1 EXCEPT ![u] = updateLoginInfo(@)]
    IN
    IF id = NoId \/ email = NoEmail
        THEN LoginOut(users, sessions, issued, "invalid_input", NoUser, "none", <<>>)
    ELSE IF fp = "User.findOne"
        THEN LoginOut(users, sessions, issued, "login_failed", NoUser, "none", L1)
    ELSE IF u0 = NoUser /\ fp = "User.validate"
        \* error.name === 'ValidationError' (e.g. a name shorter than 2)
        THEN LoginOut(users, sessions, issued, "validation_failed", NoUser, "none", L1)
    ELSE IF u0 = NoUser /\ fp = "User.create"
        THEN LoginOut(users, sessions, issued, "login_failed", NoUser, "none", L2)
    ELSE IF u0 = NoUser /\ \E v \in UserIds : users[v].email = email
        \* unique index on email: error.code === 11000
        THEN LoginOut(users, sessions, issued, "email_exists", NoUser, "none", L2)
    ELSE IF needsLink /\ fp = "User.save:provider"
        THEN LoginOut(users, sessions, issued, "login_failed", u0, "none", L2)
    ELSE IF fp = "User.save:login"
        THEN LoginOut(U1, sessions, issued, "login_failed", u, "none", L2 \o <<"User.save">>)
    ELSE loginSession(U2, u, keep, fp, L2 \o <<"User.save">>)

\* the users findOne may return
FoundUsers(provider, id, email) ==
    IF findExistingUser(provider, id, email) = {} THEN {NoUser}
    ELSE findExistingUser(provider, id, email)

\* the user a login ends up with
ResolvedUser(u0) == IF u0 = NoUser THEN Len(users) + 1 ELSE u0

\* a request or an operator action starts: at most maxSteps of them
Begin(maxSteps) ==
    /\ pc = "idle"
    /\ steps < maxSteps
    /\ steps' = steps + 1

\* GET /auth/<provider>/callback: the provider, and whether the query has a code
CallbackReq(provider, hasCode) ==
    [rt |-> NoToken, at |-> NoToken, hdr |-> NoToken, provider |-> provider,
     code |-> hasCode]

\* the statuses the provider answers the token exchange and the profile
\* request with (500: any other failure, or no response at all)
HttpStatuses == {200, 400, 401, 500}

\* handleOAuthError: the error code of the redirect
handleOAuthError(status) ==
    IF status = 400 THEN "invalid_request"
    ELSE IF status = 401 THEN "unauthorized"
    ELSE "oauth_failed"

\* the outcome of the callback before loginOrCreateUser
CallbackOut(proceed, code, log) == [proceed |-> proceed, code |-> code, log |-> log]

\* a callback that exchanges the code before it looks at it
oauthCallbackExchangeFirst(hasCode, post, get) ==
    IF post # 200
        THEN CallbackOut(FALSE, handleOAuthError(post), <<"axios.post", "redirect">>)
    ELSE IF get # 200
        THEN CallbackOut(FALSE, handleOAuthError(get),
                         <<"axios.post", "axios.get", "redirect">>)
    ELSE IF ~hasCode THEN CallbackOut(FALSE, "no_code", <<"redirect">>)
    ELSE CallbackOut(TRUE, "none", <<"axios.post", "axios.get">>)

\* googleCallback, githubCallback: validateAuthCode, the token exchange, the
\* profile request; post and get are the statuses the provider answers with
oauthCallback(hasCode, post, get) ==
    IF ~hasCode THEN CallbackOut(FALSE, "no_code", <<"redirect">>)
    ELSE IF post # 200
        THEN CallbackOut(FALSE, handleOAuthError(post), <<"axios.post", "redirect">>)
    ELSE IF get # 200
        THEN CallbackOut(FALSE, handleOAuthError(get),
                         <<"axios.post", "axios.get", "redirect">>)
    ELSE CallbackOut(TRUE, "none", <<"axios.post", "axios.get">>)

\* GET /auth/<provider>/callback that ends before loginOrCreateUser: without
\* a code, or with a provider call that fails
CallbackFails(provider, hasCode, post, get, maxSteps) ==
    /\ Begin(maxSteps)
    /\ LET o == oauthCallback(hasCode, post, get) IN
       /\ ~o.proceed
       /\ resp' = Resp("login", CallbackReq(provider, hasCode), {}, 302, o.code,
                       NoUser, 0, TRUE, "none", o.log)
    /\ pc' = "responded"
    /\ UNCHANGED <<now, ticks, env, users, sessions, issued, tok, held, jar, job,
                   inflight, revoked, docs>>

\* GET /auth/<provider>/callback with the profile the provider returned
Login(provider, id, email, fp, maxSteps) ==
    /\ Begin(maxSteps)
    /\ \E u0 \in FoundUsers(provider, id, email) :
       \E keep \in KeepChoices(cleanExpiredSessions(sessions, now),
                                ResolvedUser(u0), MAX_SESSIONS_PER_USER, now) :
          LET o == loginOrCreateUser(provider, id, email, u0, keep, fp) IN
          /\ users' = o.users
          /\ sessions' = o.sessions
          /\ issued' = o.issued
          /\ resp' = Resp("login", CallbackReq(provider, TRUE), {fp} \ {"none"}, 302,
                          o.code, o.user, 0, o.code # "success", o.cookies,
                          oauthCallback(TRUE, 200, 200).log \o o.log)
          /\ jar' = o.jar
    /\ pc' = "responded"
    /\ UNCHANGED <<now, ticks, env, tok, held, job, inflight, revoked, docs>>

\* time passes: by one of the durations D
Tick(maxTicks, D) ==
    /\ pc = "idle"
    /\ ticks < maxTicks
    /\ \E d \in D : now' = now + d
    /\ ticks' = ticks + 1
    /\ UNCHANGED <<pc, steps, env, users, sessions, issued, resp, tok, held,
                   jar, job, inflight, revoked, docs>>

\* the response has been sent; the next request may start
EndRequest ==
    /\ pc = "responded"
    /\ pc' = "idle"
    /\ resp' = NoResp
    /\ jar' = NoJar
    /\ UNCHANGED <<steps, now, ticks, env, users, sessions, issued, tok, held,
                   job, inflight, revoked, docs>>

(***************************************************************************)
(* Authentication gate (verifyJwtToken).  F is the set of datastore calls  *)
(* that fail during the request.                                           *)
(***************************************************************************)
\* extractAccessToken: the cookie, else the Authorization header
extractAccessToken(req) == IF req.at # NoToken THEN req.at ELSE req.hdr

\* handleAuthError: the message chosen by the name of the error
handleAuthError(name) ==
    IF name = "TokenExpiredError" THEN "Access token has expired"
    ELSE IF name = "JsonWebTokenError" THEN "Invalid access token"
    ELSE IF name = "NotBeforeError" THEN "Token not active yet"
    ELSE "Authentication failed"

\* a findOne that leaves { isActive: true } out of its filter
ValidSessionsAnyState(S, userId, accessToken, t) ==
    {s \in S : /\ s.userId = userId
               /\ s.accessToken = accessToken
               /\ s.expiresAt > t}

\* Session.findOne({ userId, accessToken, isActive: true, expiresAt: { $gt: now } })
ValidSessions(S, userId, accessToken, t) ==
    {s \in S : /\ s.userId = userId
               /\ s.accessToken = accessToken
               /\ s.isActive
               /\ s.expiresAt > t}

\* a save that also pushes expiresAt forward
TouchSliding(S, s, t) ==
    (S \ {s}) \cup {[s EXCEPT !.lastUsed = t,
                               !.expiresAt = t + Days(REFRESH_TOKEN_EXPIRY_DAYS)]}

\* session.lastUsed = new Date(); session.save()
Touch(S, s, t) == (S \ {s}) \cup {[s EXCEPT !.lastUsed = t]}

GateOut(ok, code, user, token, S, log) ==
    [ok |-> ok, code |-> code, user |-> user, token |-> token, sessions |-> S,
     log |-> log]

\* validateUserSession, for the session s0 that findOne returned: a failure
\* of findOne or of save is caught and reported as "not valid"
validateUserSession(userId, accessToken, s0, F) ==
    IF "gate.Session.findOne" \in F THEN [valid |-> FALSE, sessions |-> sessions]
    ELSE IF s0 = NoSession THEN [valid |-> FALSE, sessions |-> sessions]
    ELSE IF "gate.session.save" \in F THEN [valid |-> FALSE, sessions |-> sessions]
    ELSE [valid |-> TRUE, sessions |-> Touch(sessions, s0, now)]

\* a gate that validates the session before it looks at user.isActive
verifyJwtTokenSessionFirst(req, s0, F) ==
    LET accessToken == extractAccessToken(req)
        v == verifyAccessToken(accessToken, env, now)
        u == accessToken._id
        sv == validateUserSession(u, accessToken, s0, F)
        Lu == <<"User.findById">>
        Ls == Lu \o <<"Session.findOne">>
    IN
    IF accessToken = NoToken
        THEN GateOut(FALSE, "Access token required", NoUser, accessToken, sessions, <<>>)
    ELSE IF ~v.ok
        THEN GateOut(FALSE, handleAuthError(v.name), NoUser, accessToken, sessions, <<>>)
    ELSE IF "gate.User.findById" \in F
        THEN GateOut(FALSE, "Authentication failed", NoUser, accessToken, sessions, Lu)
    ELSE IF u \notin UserIds
        THEN GateOut(FALSE, "User not found", NoUser, accessToken, sessions, Lu)
    ELSE IF ~sv.valid
        THEN GateOut(FALSE, "Invalid session", NoUser, accessToken, sessions, Ls)
    ELSE IF ~users[u].isActive
        THEN GateOut(FALSE, "Account is deactivated", NoUser, accessToken, sessions, Ls)
    ELSE GateOut(TRUE, "ok", u, accessToken, sv.sessions, Ls)

\* verifyJwtToken, for the session s0 that findOne returned
verifyJwtToken(req, s0, F) ==
    LET accessToken == extractAccessToken(req)
        v == verifyAccessToken(accessToken, env, now)
        u == accessToken._id
        sv == validateUserSession(u, accessToken, s0, F)
        Lu == <<"User.findById">>
        Ls == IF s0 = NoSession \/ "gate.Session.findOne" \in F
              THEN Lu \o <<"Session.findOne">>
              ELSE Lu \o <<"Session.findOne", "Session.save">>
    IN
    IF accessToken = NoToken
        THEN GateOut(FALSE, "Access token required", NoUser, accessToken, sessions, <<>>)
    ELSE IF ~v.ok
        THEN GateOut(FALSE, handleAuthError(v.name), NoUser, accessToken, sessions, <<>>)
    ELSE IF "gate.User.findById" \in F
        THEN GateOut(FALSE, "Authentication failed", NoUser, accessToken, sessions, Lu)
    ELSE IF u \notin UserIds
        THEN GateOut(FALSE, "User not found", NoUser, accessToken, sessions, Lu)
    ELSE IF ~users[u].isActive
        THEN GateOut(FALSE, "Account is deactivated", NoUser, accessToken, sessions, Lu)
    ELSE IF ~sv.valid
        THEN GateOut(FALSE, "Invalid session", NoUser, accessToken, sessions, Ls)
    ELSE GateOut(TRUE, "ok", u, accessToken, sv.sessions, Ls)

\* the sessions findOne may return for the token of the request
GateSessions(req) ==
    LET accessToken == extractAccessToken(req)
        M == ValidSessions(sessions, accessToken._id, accessToken, now)
    IN IF M = {} THEN {NoSession} ELSE M

\* GET /api/v1/user/profile: the gate, then getCurrentUser
Profile(req, F, maxSteps) ==
    /\ Begin(maxSteps)
    /\ \E s0 \in GateSessions(req) :
          LET g == verifyJwtToken(req, s0, F) IN
          /\ sessions' = g.sessions
          /\ resp' = IF ~g.ok
                       THEN Resp("profile", req, F, 401, g.code, NoUser, 0, TRUE,
                                 "none", <<>>)
                     ELSE IF "User.findById" \in F
                       THEN Resp("profile", req, F, 500, "error", g.user, 0, TRUE,
                                 "none", <<"User.findById">>)
                     ELSE Resp("profile", req, F, 200, "ok", g.user, 0, FALSE,
                               "none", <<"User.findById">>)
    /\ pc' = "responded"
    /\ UNCHANGED <<now, ticks, env, users, issued, tok, held,
                   jar, job, inflight, revoked, docs>>

(***************************************************************************)
(* The gate of a request in flight: validateUserSession reads the session, *)
(* other requests run, and then it saves lastUsed                          *)
(***************************************************************************)
\* a save that writes every field of the document read earlier
sessionSaveWholeDocument(S, doc) ==
    {IF s._id = doc._id THEN doc ELSE s : s \in S}

\* session.save(): only the modified path, lastUsed, is written to the row
sessionSave(S, doc) ==
    {IF s._id = doc._id THEN [s EXCEPT !.lastUsed = doc.lastUsed] ELSE s : s \in S}

\* the gate up to session.lastUsed = new Date(): the document is in memory
GateFind(req, maxSteps) ==
    /\ pc = "idle"
    /\ steps < maxSteps
    /\ held = NoSession
    /\ \E s0 \in GateSessions(req) :
          /\ s0 # NoSession
          /\ verifyJwtToken(req, s0, {}).ok
          /\ held' = [s0 EXCEPT !.lastUsed = now]
    /\ steps' = steps + 1
    /\ UNCHANGED <<pc, now, ticks, env, users, sessions, issued, resp, tok,
                   jar, job, inflight, revoked, docs>>

\* session.save() and the rest of the request; the save fails when the row
\* is gone, and the catch reports the session as not valid
GateSave ==
    /\ pc = "idle"
    /\ held # NoSession
    /\ sessions' = sessionSave(sessions, held)
    /\ resp' = IF \E s \in sessions : s._id = held._id
                 THEN Resp("profile", Req(NoToken, held.accessToken, NoToken), {}, 200,
                           "ok", held.userId, 0, FALSE, "none", <<"User.findById">>)
                 ELSE Resp("profile", Req(NoToken, held.accessToken, NoToken), {}, 401,
                           "Invalid session", NoUser, 0, TRUE, "none", <<>>)
    /\ held' = NoSession
    /\ pc' = "responded"
    /\ UNCHANGED <<steps, now, ticks, env, users, issued, tok,
                   jar, job, inflight, revoked, docs>>

(***************************************************************************)
(* POST /api/v1/user/logout-all-others: the gate, then                     *)
(* SessionService.invalidateAllOtherSessions                               *)
(***************************************************************************)
\* an updateMany that leaves { accessToken: { $ne: current } } out
\* the access tokens of the sessions of S that a handler deleted or
\* deactivated, S2 being the store it left
RevokedBy(S, S2) ==
    {s.accessToken : s \in {x \in S : \/ \A y \in S2 : y._id # x._id
                                      \/ /\ x.isActive
                                         /\ \E y \in S2 : y._id = x._id /\ ~y.isActive}}

AllSessionsOfUser(S, userId, currentAccessToken) ==
    {s \in S : s.userId = userId /\ s.isActive}

\* updateMany({ userId, isActive: true, accessToken: { $ne: current } }, ...)
OtherSessions(S, userId, currentAccessToken) ==
    {s \in S : s.userId = userId /\ s.isActive /\ s.accessToken # currentAccessToken}

invalidateAllOtherSessions(S, userId, currentAccessToken, F) ==
    LET D == OtherSessions(S, userId, currentAccessToken)
        S1 == updateMany(S, D, [isActive |-> FALSE, loggedOutAt |-> now])
        n == Cardinality(D)
        U1 == [users EXCEPT ![userId].loginCount = 1]
    IN
    IF "Session.updateMany" \in F
        THEN [ok |-> FALSE, users |-> users, sessions |-> S, n |-> 0,
              log |-> <<"Session.updateMany">>]
    ELSE IF n = 0
        \* result.modifiedCount > 0 is false: the counter is not touched
        THEN [ok |-> TRUE, users |-> users, sessions |-> S1, n |-> n,
              log |-> <<"Session.updateMany">>]
    ELSE IF "User.findById" \in F
        THEN [ok |-> FALSE, users |-> users, sessions |-> S1, n |-> n,
              log |-> <<"Session.updateMany", "User.findById">>]
    ELSE IF "User.save" \in F
        THEN [ok |-> FALSE, users |-> users, sessions |-> S1, n |-> n,
              log |-> <<"Session.updateMany", "User.findById", "User.save">>]
    ELSE [ok |-> TRUE, users |-> U1, sessions |-> S1, n |-> n,
          log |-> <<"Session.updateMany", "User.findById", "User.save">>]

\* logoutAllOtherDevices behind the gate; an error reaches the ErrorHandler
LogoutOthers(req, F, maxSteps) ==
    /\ Begin(maxSteps)
    /\ \E s0 \in GateSessions(req) :
          LET g == verifyJwtToken(req, s0, F)
              h == invalidateAllOtherSessions(g.sessions, g.user, g.token, F)
          IN
          IF ~g.ok
            THEN /\ sessions' = g.sessions
                 /\ users' = users
                 /\ resp' = Resp("logoutOthers", req, F, 401, g.code, NoUser, 0, TRUE,
                                 "none", <<>>)
            ELSE /\ sessions' = h.sessions
                 /\ users' = h.users
                 /\ resp' = IF h.ok
                              THEN Resp("logoutOthers", req, F, 200, "ok", g.user, h.n,
                                        FALSE, "none", h.log)
                            ELSE Resp("logoutOthers", req, F, 500, "error", g.user, 0,
                                      TRUE, "none", h.log)
    /\ revoked' = revoked \cup RevokedBy(sessions, sessions')
    /\ pc' = "responded"
    /\ UNCHANGED <<now, ticks, env, issued, tok, held, jar, job, inflight, docs>>

(***************************************************************************)
(* POST /auth/logout                                                       *)
(***************************************************************************)
\* Session.deleteOne({ refreshToken, isActive: true }): the candidates
DeleteOneMatches(S, refreshToken) ==
    {s \in S : s.refreshToken = refreshToken /\ s.isActive}

\* a helper that decrements the counter whether or not deleteOne removed a
\* session
deleteSessionAndUpdateCountAlways(d, userId, F) ==
    LET S1 == sessions \ {d}
        n == IF d = NoSession THEN 0 ELSE 1
    IN
    IF "Session.deleteOne" \in F \/ userId \notin UserIds
        THEN [n |-> 0, users |-> users, sessions |-> sessions,
              log |-> <<"Session.deleteOne">>]
    ELSE [n |-> n, users |-> [users EXCEPT ![userId] = decrementLoginCount(@)],
          sessions |-> S1, log |-> <<"Session.deleteOne", "User.findById", "User.save">>]

\* deleteSessionAndUpdateCount, for the session d that deleteOne removes; the
\* catch returns 0 whatever was deleted before the failure
deleteSessionAndUpdateCount(d, userId, F) ==
    LET S1 == sessions \ {d}
        n == IF d = NoSession THEN 0 ELSE 1
        U1 == [users EXCEPT ![userId] = decrementLoginCount(@)]
        L1 == <<"Session.deleteOne">>
    IN
    IF "Session.deleteOne" \in F
        THEN [n |-> 0, users |-> users, sessions |-> sessions, log |-> L1]
    ELSE IF ~(n > 0 /\ userId # NoUser)
        THEN [n |-> n, users |-> users, sessions |-> S1, log |-> L1]
    ELSE IF "User.findById" \in F
        THEN [n |-> 0, users |-> users, sessions |-> S1,
              log |-> L1 \o <<"User.findById">>]
    ELSE IF userId \notin UserIds
        THEN [n |-> n, users |-> users, sessions |-> S1,
              log |-> L1 \o <<"User.findById">>]
    ELSE IF "User.save" \in F
        THEN [n |-> 0, users |-> users, sessions |-> S1,
              log |-> L1 \o <<"User.findById", "User.save">>]
    ELSE [n |-> n, users |-> U1, sessions |-> S1,
          log |-> L1 \o <<"User.findById", "User.save">>]

\* a cleanup helper without its try/catch: the failure reaches the caller
cleanupUserExpiredThrows(S, userId, F) ==
    IF "Session.deleteMany" \in F THEN [sessions |-> S, threw |-> TRUE]
    ELSE [sessions |-> {s \in S : ~(s.userId = userId /\ Stale(s, now))},
          threw |-> FALSE]

\* cleanupExpiredSessions(userId) of the logout controller: a failure of
\* deleteMany is caught
cleanupUserExpired(S, userId, F) ==
    IF "Session.deleteMany" \in F THEN [sessions |-> S, threw |-> FALSE]
    ELSE [sessions |-> {s \in S : ~(s.userId = userId /\ Stale(s, now))},
          threw |-> FALSE]

DeleteChoices(rt) ==
    IF DeleteOneMatches(sessions, rt) = {} THEN {NoSession}
    ELSE DeleteOneMatches(sessions, rt)

\* logout: the cookies are cleared first; an exception that reaches the
\* outer catch still gives 200, with an error field
logout(req, d, F) ==
    LET userId == getUserIdFromToken(req.at, env, now)
        L0 == <<"clearCookie">>
        r == IF req.rt # NoToken THEN deleteSessionAndUpdateCount(d, userId, F)
             ELSE [n |-> 0, users |-> users, sessions |-> sessions, log |-> <<>>]
        c == IF userId # NoUser THEN cleanupUserExpired(r.sessions, userId, F)
             ELSE [sessions |-> r.sessions, threw |-> FALSE]
        L2 == IF userId # NoUser THEN L0 \o r.log \o <<"Session.deleteMany">>
              ELSE L0 \o r.log
    IN [users |-> r.users, sessions |-> c.sessions,
        resp |-> IF c.threw
                   THEN Resp("logout", req, F, 200, "Logged out (with cleanup errors)",
                             userId, 0, TRUE, "cleared", L2)
                   ELSE Resp("logout", req, F, 200, "Logged out successfully",
                             userId, r.n, FALSE, "cleared", L2)]

Logout(req, F, maxSteps) ==
    /\ Begin(maxSteps)
    /\ \E d \in DeleteChoices(req.rt) :
          LET o == logout(req, d, F) IN
          /\ users' = o.users
          /\ sessions' = o.sessions
          /\ resp' = o.resp
    /\ revoked' = revoked \cup RevokedBy(sessions, sessions')
    /\ pc' = "responded"
    /\ UNCHANGED <<now, ticks, env, issued, tok, held, jar, job, inflight, docs>>

\* the client sends the POST /auth/logout it just got the response of once
\* more, with the same cookies
LogoutAgain(F, maxSteps) ==
    /\ pc = "responded"
    /\ resp.op = "logout"
    /\ steps < maxSteps
    /\ steps' = steps + 1
    /\ \E d \in DeleteChoices(resp.req.rt) :
          LET o == logout(resp.req, d, F) IN
          /\ users' = o.users
          /\ sessions' = o.sessions
          /\ resp' = o.resp
    /\ revoked' = revoked \cup RevokedBy(sessions, sessions')
    /\ UNCHANGED <<pc, now, ticks, env, issued, tok, held, jar, job, inflight, docs>>

(***************************************************************************)
(* POST /auth/logout-all: the gate, then logoutAllDevices                  *)
(***************************************************************************)
\* Session.findOne({ refreshToken }): the candidates
FindByRefresh(S, refreshToken) == {s \in S : s.refreshToken = refreshToken}

\* logoutAllDevices, for the session s1 that findOne returned: the user is
\* the owner of that session, else the user of the accessToken cookie
logoutAllDevices(S, req, s1, F) ==
    LET found == req.rt # NoToken /\ "Session.findOne" \notin F /\ s1 # NoSession
        L1 == IF req.rt # NoToken THEN <<"Session.findOne">> ELSE <<>>
        userId == IF found THEN s1.userId
                  ELSE IF req.at # NoToken THEN getUserIdFromToken(req.at, env, now)
                  ELSE NoUser
        L2 == L1 \o <<"clearCookie">>
        S1 == {s \in S : s.userId # userId}
        n == Cardinality(S) - Cardinality(S1)
        U1 == [users EXCEPT ![userId].loginCount = 0]
    IN
    IF userId = NoUser
        THEN [users |-> users, sessions |-> S, user |-> userId, n |-> 0, log |-> L2]
    ELSE IF "Session.deleteMany" \in F
        THEN [users |-> users, sessions |-> S, user |-> userId, n |-> 0,
              log |-> L2 \o <<"Session.deleteMany">>]
    ELSE IF n = 0
        THEN [users |-> users, sessions |-> S1, user |-> userId, n |-> n,
              log |-> L2 \o <<"Session.deleteMany">>]
    ELSE IF "User.findById" \in F \/ userId \notin UserIds
        THEN [users |-> users, sessions |-> S1, user |-> userId, n |-> n,
              log |-> L2 \o <<"Session.deleteMany", "User.findById">>]
    ELSE IF "User.save" \in F
        THEN [users |-> users, sessions |-> S1, user |-> userId, n |-> n,
              log |-> L2 \o <<"Session.deleteMany", "User.findById", "User.save">>]
    ELSE [users |-> U1, sessions |-> S1, user |-> userId, n |-> n,
          log |-> L2 \o <<"Session.deleteMany", "User.findById", "User.save">>]

FindChoices(S, rt) ==
    IF FindByRefresh(S, rt) = {} THEN {NoSession} ELSE FindByRefresh(S, rt)

\* the response names the user the gate authenticated
LogoutAll(req, F, maxSteps) ==
    /\ Begin(maxSteps)
    /\ \E s0 \in GateSessions(req) :
          LET g == verifyJwtToken(req, s0, F) IN
          IF ~g.ok
            THEN /\ sessions' = g.sessions
                 /\ users' = users
                 /\ resp' = Resp("logoutAll", req, F, 401, g.code, NoUser, 0, TRUE,
                                 "none", <<>>)
            ELSE \E s1 \in FindChoices(g.sessions, req.rt) :
                 LET h == logoutAllDevices(g.sessions, req, s1, F) IN
                 /\ sessions' = h.sessions
                 /\ users' = h.users
                 /\ resp' = Resp("logoutAll", req, F, 200, "Logged out from all devices",
                                 g.user, h.n, FALSE, "cleared", h.log)
    /\ revoked' = revoked \cup RevokedBy(sessions, sessions')
    /\ pc' = "responded"
    /\ UNCHANGED <<now, ticks, env, issued, tok, held, jar, job, inflight, docs>>

(***************************************************************************)
(* Background: the periodic cleanup, the TTL index, and the operator who   *)
(* deactivates an account                                                  *)
(***************************************************************************)
\* cleanupExpiredSessions of the periodic job: a run that succeeds and
\* returns result.deletedCount
Cleanup ==
    /\ pc = "idle"
    /\ \E s \in sessions : Stale(s, now)
    /\ sessions' = cleanExpiredSessions(sessions, now)
    /\ resp' = Resp("cleanup", NoReq, {}, 0, "none", NoUser,
                    Cardinality(sessions) - Cardinality(cleanExpiredSessions(sessions, now)),
                    FALSE, "none", <<"Session.deleteMany">>)
    /\ pc' = "responded"
    /\ UNCHANGED <<steps, now, ticks, env, users, issued, tok, held,
                   jar, job, inflight, revoked, docs>>

\* expiresAt: index { expireAfterSeconds: 0 }: the store drops expired rows
TtlExpire ==
    /\ pc = "idle"
    /\ \E s \in sessions : s.expiresAt <= now
    /\ sessions' = {s \in sessions : s.expiresAt > now}
    /\ UNCHANGED <<pc, steps, now, ticks, env, users, issued, resp, tok, held,
                   jar, job, inflight, revoked, docs>>

\* userSchema.isActive set to false: no handler does it, an operator does
DeactivateUser(u, maxSteps) ==
    /\ pc = "idle"
    /\ steps < maxSteps
    /\ steps' = steps + 1
    /\ u \in UserIds
    /\ users[u].isActive
    /\ users' = [users EXCEPT ![u].isActive = FALSE]
    /\ UNCHANGED <<pc, now, ticks, env, sessions, issued, resp, tok, held,
                   jar, job, inflight, revoked, docs>>

(***************************************************************************)
(* Token Issuer on its own: any secrets, any additional payload            *)
(***************************************************************************)
\* the token last issued, and the function that issued it
Issued(by, token) == [by |-> by, token |-> token]

NoIssued == Issued("none", NoToken)

\* additionalPayload: nothing, or a type of its own
Payload(sel) ==
    IF sel = "type:access" THEN [type |-> "access"]
    ELSE IF sel = "type:refresh" THEN [type |-> "refresh"]
    ELSE EmptyPayload

PayloadNames == {"none", "type:access", "type:refresh"}

TokUsers == {1, 2}

IssueAccess(userId, sel) ==
    /\ tok' = Issued("generateAccessToken",
                     generateAccessToken(userId, Payload(sel), env, now))
    /\ UNCHANGED <<pc, steps, now, ticks, env, users, sessions, issued, resp, held,
                   jar, job, inflight, revoked, docs>>

IssueRefresh(userId, sel) ==
    /\ tok' = Issued("generateRefreshToken",
                     generateRefreshToken(userId, Payload(sel), env, now))
    /\ UNCHANGED <<pc, steps, now, ticks, env, users, sessions, issued, resp, held,
                   jar, job, inflight, revoked, docs>>

(***************************************************************************)
(* Periodic session cleanup: startSessionCleanup runs cleanupExpiredSessions*)
(* at once and then from a timer; a run retries a failed delete with       *)
(* exponential backoff.  The timer runs independently of request handling. *)
(* The model follows one run at a time: the timer fires hourly and a run   *)
(* retries for seconds, so a run that would start while another is still   *)
(* retrying is not followed.                                               *)
(***************************************************************************)
\* cleanupInterval = null
NoTimer == 0

\* one run of cleanupExpiredSessions: delete calls made and failed so far,
\* the delays waited (in seconds), and what the run resolved with
Run(state, retryCount, attempts, failures, waits, result) ==
    [state |-> state, retryCount |-> retryCount, attempts |-> attempts,
     failures |-> failures, waits |-> waits, result |-> result]

NoRun == Run("none", 0, 0, 0, <<>>, 0)

\* cleanupExpiredSessions(): retryCount = 0
beginRun(r) == IF r.state = "running" THEN r ELSE Run("running", 0, 0, 0, <<>>, 0)

\* the module state of the job: the handle of the timer, the timers that are
\* live, the calls of startSessionCleanup and the firings of a timer so far,
\* and whether stopSessionCleanup listens to SIGINT and SIGTERM
NoJob == [cleanupInterval |-> NoTimer, timers |-> {}, calls |-> 0, fired |-> 0,
          registered |-> FALSE, run |-> NoRun]

\* a start that does not look at cleanupInterval
startSessionCleanupUnguarded(j) ==
    [j EXCEPT !.calls = @ + 1, !.cleanupInterval = j.calls + 1,
              !.timers = @ \cup {j.calls + 1}, !.registered = TRUE,
              !.run = beginRun(@)]

\* setInterval returns a new timer, here numbered by the call
startSessionCleanup(j) ==
    IF j.cleanupInterval # NoTimer
        \* "Session cleanup already running"
        THEN [j EXCEPT !.calls = @ + 1]
    ELSE [j EXCEPT !.calls = @ + 1, !.cleanupInterval = j.calls + 1,
                   !.timers = @ \cup {j.calls + 1}, !.registered = TRUE,
                   !.run = beginRun(@)]

\* clearInterval(cleanupInterval); cleanupInterval = null
stopSessionCleanup(j) ==
    IF j.cleanupInterval # NoTimer
        THEN [j EXCEPT !.timers = @ \ {j.cleanupInterval}, !.cleanupInterval = NoTimer]
    ELSE j

\* Math.pow(2, retryCount)
RECURSIVE Pow2(_)
Pow2(k) == IF k = 0 THEN 1 ELSE 2 * Pow2(k - 1)

\* one delete call of a run: it succeeds, or it fails and the run retries
\* after the backoff or gives up
cleanupAttempt(r, S, t, fails) ==
    IF ~fails
        THEN Run("done", r.retryCount, r.attempts + 1, r.failures, r.waits,
                 Cardinality(S) - Cardinality(cleanExpiredSessions(S, t)))
    ELSE IF r.retryCount < MAX_RETRY_ATTEMPTS
        THEN Run("running", r.retryCount + 1, r.attempts + 1, r.failures + 1,
                 Append(r.waits, Pow2(r.retryCount)), 0)
    ELSE Run("done", r.retryCount, r.attempts + 1, r.failures + 1, r.waits, 0)

\* the server starts the job (or something calls startSessionCleanup again)
StartCleanup ==
    /\ job.calls < MaxStarts
    /\ job' = startSessionCleanup(job)
    /\ UNCHANGED <<pc, steps, now, ticks, env, users, sessions, issued, resp, tok,
                   held, jar, inflight, revoked, docs>>

Signals == {"SIGINT", "SIGTERM"}

\* process.on(sig, stopSessionCleanup)
Signal(sig) ==
    /\ job.registered
    /\ job' = stopSessionCleanup(job)
    /\ UNCHANGED <<pc, steps, now, ticks, env, users, sessions, issued, resp, tok,
                   held, jar, inflight, revoked, docs>>

\* a live timer fires: a periodic tick
TimerFire ==
    /\ job.fired < MaxFires
    /\ \E t \in job.timers : job' = [job EXCEPT !.fired = @ + 1, !.run = beginRun(@)]
    /\ UNCHANGED <<pc, steps, now, ticks, env, users, sessions, issued, resp, tok,
                   held, jar, inflight, revoked, docs>>

\* Session.cleanExpiredSessions() of the run, after the backoff if it is a retry
Attempt(fails) ==
    /\ job.run.state = "running"
    /\ job' = [job EXCEPT !.run = cleanupAttempt(job.run, sessions, now, fails)]
    /\ sessions' = IF fails THEN sessions ELSE cleanExpiredSessions(sessions, now)
    /\ UNCHANGED <<pc, steps, now, ticks, env, users, issued, resp, tok, held, jar,
                   inflight, revoked, docs>>

(***************************************************************************)
(* Overlapping logins.  A login awaits each datastore call, so another     *)
(* login may run between its calls.  LoginRead is the login up to and      *)
(* including the cap (performSessionCleanup), LoginInsert the rest of it   *)
(* (generateTokens, Session.create, cookies, redirect); inflight lists the *)
(* users of the logins that are between the two.                           *)
(***************************************************************************)
\* remove the i-th element
RemoveAt(q, i) == SubSeq(q, 1, i - 1) \o SubSeq(q, i + 1, Len(q))

\* the first part of a login: its writes are those of a login that gets no
\* further than Session.create; at most two logins are in flight
LoginRead(provider, id, email, maxSteps) ==
    /\ Begin(maxSteps)
    /\ Len(inflight) < 2
    /\ \E u0 \in FoundUsers(provider, id, email) :
       \E keep \in KeepChoices(cleanExpiredSessions(sessions, now),
                                ResolvedUser(u0), MAX_SESSIONS_PER_USER, now) :
          LET o == loginOrCreateUser(provider, id, email, u0, keep, "Session.create")
              reached == Count(o.log, {"Session.create"}) = 1
          IN
          /\ users' = o.users
          /\ sessions' = o.sessions
          /\ inflight' = IF reached THEN Append(inflight, o.user) ELSE inflight
          /\ resp' = IF reached THEN resp
                     ELSE Resp("login", NoReq, {}, 302, o.code, o.user, 0, TRUE,
                               "none", <<"axios.post", "axios.get">> \o o.log)
    /\ UNCHANGED <<pc, now, ticks, env, issued, tok, held, jar, job,
                   revoked, docs>>

\* the second part of the i-th login in flight
LoginInsert(i) ==
    /\ i \in 1..Len(inflight)
    /\ LET u == inflight[i]
           tokens == generateTokens(u, env, now)
           dup == DuplicateKey(sessions, tokens.refreshToken)
       IN
       /\ sessions' = IF dup THEN sessions ELSE sessions \cup {NewSession(u, tokens, now)}
       /\ issued' = IF dup THEN issued
                    ELSE issued \cup {tokens.accessToken, tokens.refreshToken}
       /\ jar' = IF dup THEN NoJar
                 ELSE setSecureCookies(tokens.accessToken, tokens.refreshToken)
       /\ resp' = IF dup
                    THEN Resp("login", NoReq, {}, 302, "email_exists", u, 0, TRUE, "none",
                              <<"Session.create", "redirect">>)
                  ELSE Resp("login", NoReq, {}, 302, "success", u, 0, FALSE, "set",
                            <<"Session.create", "setCookies", "redirect">>)
    /\ inflight' = RemoveAt(inflight, i)
    /\ steps' = steps + 1
    /\ UNCHANGED <<pc, now, ticks, env, users, tok, held, job, revoked, docs>>

(***************************************************************************)
(* optionalAuth: the steps of the gate, with every failure swallowed       *)
(***************************************************************************)
\* an optionalAuth that attaches an active user without validating the session
optionalAuthNoSession(req, s0, F) ==
    LET accessToken == extractAccessToken(req)
        v == verifyAccessToken(accessToken, env, now)
        u == accessToken._id
    IN
    IF accessToken = NoToken
        THEN GateOut(FALSE, "next", NoUser, accessToken, sessions, <<>>)
    ELSE IF ~v.ok
        THEN GateOut(FALSE, "next", NoUser, accessToken, sessions, <<>>)
    ELSE IF "gate.User.findById" \in F
        THEN GateOut(FALSE, "next", NoUser, accessToken, sessions, <<"User.findById">>)
    ELSE IF u \in UserIds /\ users[u].isActive
        THEN GateOut(TRUE, "next", u, accessToken, sessions, <<"User.findById">>)
    ELSE GateOut(FALSE, "next", NoUser, accessToken, sessions, <<"User.findById">>)

\* optionalAuth, for the session s0 that findOne returned: ok says whether
\* req.user was set; next() is called on every path
optionalAuth(req, s0, F) ==
    LET accessToken == extractAccessToken(req)
        v == verifyAccessToken(accessToken, env, now)
        u == accessToken._id
        sv == validateUserSession(u, accessToken, s0, F)
        Lu == <<"User.findById">>
        Ls == IF s0 = NoSession \/ "gate.Session.findOne" \in F
              THEN Lu \o <<"Session.findOne">>
              ELSE Lu \o <<"Session.findOne", "Session.save">>
    IN
    IF accessToken = NoToken
        THEN GateOut(FALSE, "next", NoUser, accessToken, sessions, <<>>)
    ELSE IF ~v.ok
        \* verifyAccessToken throws: caught, next()
        THEN GateOut(FALSE, "next", NoUser, accessToken, sessions, <<>>)
    ELSE IF "gate.User.findById" \in F
        THEN GateOut(FALSE, "next", NoUser, accessToken, sessions, Lu)
    ELSE IF u \in UserIds /\ users[u].isActive
        THEN IF sv.valid
                THEN GateOut(TRUE, "next", u, accessToken, sv.sessions, Ls)
             ELSE GateOut(FALSE, "next", NoUser, accessToken, sv.sessions, Ls)
    ELSE GateOut(FALSE, "next", NoUser, accessToken, sessions, Lu)

\* a request to a route behind optionalAuth: the middleware hands it on
Optional(req, F, maxSteps) ==
    /\ Begin(maxSteps)
    /\ \E s0 \in GateSessions(req) :
          LET g == optionalAuth(req, s0, F) IN
          /\ sessions' = g.sessions
          /\ resp' = Resp("optional", req, F, 200, g.code, g.user, 0, FALSE, "none",
                          g.log)
    /\ pc' = "responded"
    /\ UNCHANGED <<now, ticks, env, users, issued, tok, held, jar, job, inflight,
                   revoked, docs>>

(***************************************************************************)
(* Logins that hold a user document.  findExistingUser returns a document  *)
(* in memory; updateUserProviderData and updateLoginInfo change that       *)
(* document and save() writes its modified paths.  LoginFind is the login  *)
(* up to the document, LoginSave the rest of it; docs lists the documents  *)
(* of the logins that are between the two.                                 *)
(***************************************************************************)
\* document.save(): $set of the modified paths; the versionKey is neither
\* compared nor incremented for scalar paths
saveModified(stored, doc, paths) ==
    [k \in DOMAIN stored |-> IF k \in paths THEN doc[k] ELSE stored[k]]

\* findExistingUser of a login whose user exists: the document goes to
\* memory; at most two logins are in flight
LoginFind(provider, id, email, maxSteps) ==
    /\ Begin(maxSteps)
    /\ Len(docs) < 2
    /\ id # NoId /\ email # NoEmail
    /\ \E u0 \in findExistingUser(provider, id, email) :
          docs' = Append(docs, [user |-> u0, doc |-> users[u0],
                                field |-> providerIdField(provider), id |-> id])
    /\ UNCHANGED <<pc, now, ticks, env, users, sessions, issued, resp, tok, held,
                   jar, job, inflight, revoked>>

\* the rest of the i-th login in flight: updateUserProviderData and
\* updateLoginInfo on the document, their saves, then the session
LoginSave(i) ==
    /\ i \in 1..Len(docs)
    /\ LET u == docs[i].user
           f == docs[i].field
           needsLink == docs[i].doc[f] = NoId
           d1 == IF needsLink THEN [docs[i].doc EXCEPT ![f] = docs[i].id] ELSE docs[i].doc
           d2 == updateLoginInfo(d1)
           paths == IF needsLink THEN {f, "lastLoginAt", "loginCount"}
                    ELSE {"lastLoginAt", "loginCount"}
           U2 == [users EXCEPT ![u] = saveModified(@, d2, paths)]
           L2 == IF needsLink THEN <<"User.findOne", "User.save", "User.save">>
                 ELSE <<"User.findOne", "User.save">>
       IN
       \E keep \in KeepChoices(cleanExpiredSessions(sessions, now), u,
                                MAX_SESSIONS_PER_USER, now) :
          LET o == loginSession(U2, u, keep, "none", L2) IN
          /\ users' = o.users
          /\ sessions' = o.sessions
          /\ issued' = o.issued
          /\ jar' = o.jar
          /\ resp' = Resp("login", NoReq, {}, 302, o.code, o.user, 0,
                          o.code # "success", o.cookies,
                          <<"axios.post", "axios.get">> \o o.log)
    /\ docs' = RemoveAt(docs, i)
    /\ steps' = steps + 1
    /\ UNCHANGED <<pc, now, ticks, env, tok, held, job, inflight, revoked>>

(***************************************************************************)
(* Inputs of the requests: the tokens clients hold are the ones issued     *)
(***************************************************************************)
AccessTokens == {t \in issued : t.type = "access"}
RefreshTokens == {t \in issued : t.type = "refresh"}

\* cookies of POST /auth/logout
LogoutReqs ==
    {Req(rt, at, NoToken) : rt \in RefreshTokens \cup {NoToken, Garbage},
                            at \in AccessTokens \cup {NoToken}}

\* the access token in the cookie or in the Authorization header
GateReqs ==
    {Req(NoToken, at, NoToken) : at \in AccessTokens \cup {NoToken, Garbage}}
    \cup {Req(NoToken, NoToken, h) : h \in AccessTokens}

\* cookies and header of POST /auth/logout-all
LogoutAllReqs ==
    {Req(rt, at, NoToken) : rt \in RefreshTokens \cup {NoToken, Garbage},
                            at \in AccessTokens \cup {NoToken}}
    \cup {Req(rt, NoToken, h) : rt \in RefreshTokens \cup {NoToken}, h \in AccessTokens}

\* the datastore failures injected into a request: none, or one call
Faults(ops) == {{}} \cup {{op} : op \in ops}

GateOps == {"gate.User.findById", "gate.Session.findOne", "gate.session.save"}
ProfileOps == GateOps \cup {"User.findById"}
LogoutOthersOps == GateOps \cup {"Session.updateMany", "User.findById", "User.save"}
LogoutOps == {"Session.deleteOne", "User.findById", "User.save", "Session.deleteMany"}
LogoutAllOps == GateOps \cup {"Session.findOne", "Session.deleteMany", "User.findById",
                              "User.save"}

OAuthProfile(p, i, m) == [provider |-> p, id |-> i, email |-> m]

\* the OAuth profiles that reach loginOrCreateUser: two people, and a profile
\* without id and email
Profiles == {OAuthProfile("google", "p1", "a@x.com"), OAuthProfile("github", "p2", "b@x.com"),
             OAuthProfile("github", NoId, NoEmail)}

\* the same people, and the second account after its email became the email
\* of the first
LinkProfiles == {OAuthProfile("google", "p1", "a@x.com"),
                 OAuthProfile("github", "p2", "b@x.com"),
                 OAuthProfile("github", "p2", "a@x.com")}

\* the profile of the one user of SpecCap
CapProfiles == {OAuthProfile("google", "p1", "a@x.com")}

\* a moment, the lifetime of an access token, the lifetime of a session
Durations == {1, Days(ACCESS_TOKEN_EXPIRY), Days(REFRESH_TOKEN_EXPIRY_DAYS)}
CapDurations == {1, Days(REFRESH_TOKEN_EXPIRY_DAYS)}
TokDurations == {1, Days(ACCESS_TOKEN_EXPIRY)}

Init ==
    /\ pc = "idle"
    /\ steps = 0
    /\ now = 0
    /\ ticks = 0
    /\ env = [ACCESS_TOKEN_SECRET |-> "k1", REFRESH_TOKEN_SECRET |-> "k2",
              ACCESS_TOKEN_EXPIRY |-> ACCESS_TOKEN_EXPIRY,
              REFRESH_TOKEN_EXPIRY |-> REFRESH_TOKEN_EXPIRY]
    /\ users = <<>>
    /\ sessions = {}
    /\ issued = {}
    /\ resp = NoResp
    /\ tok = NoIssued
    /\ held = NoSession
    /\ jar = NoJar
    /\ job = NoJob
    /\ inflight = <<>>
    /\ revoked = {}
    /\ docs = <<>>

\* the requests that do not create sessions, and the background jobs
Others(maxSteps) ==
    \/ EndRequest
    \/ Cleanup
    \/ TtlExpire
    \/ \E r \in GateReqs, F \in Faults(ProfileOps) : Profile(r, F, maxSteps)
    \/ \E r \in GateReqs, F \in Faults(LogoutOthersOps) : LogoutOthers(r, F, maxSteps)
    \/ \E r \in LogoutReqs, F \in Faults(LogoutOps) : Logout(r, F, maxSteps)
    \/ \E r \in LogoutAllReqs, F \in Faults(LogoutAllOps) : LogoutAll(r, F, maxSteps)

Next ==
    \/ Tick(MaxTicks, Durations)
    \/ \E pr \in Profiles, fp \in LoginFaults :
          Login(pr.provider, pr.id, pr.email, fp, MaxSteps)
    \/ \E u \in UserIds : DeactivateUser(u, MaxSteps)
    \/ Others(MaxSteps)

Spec == Init /\ [][Next]_vars

\* one user logging in often enough to reach the cap
NextCap ==
    \/ Tick(MaxCapTicks, CapDurations)
    \/ \E pr \in CapProfiles, fp \in LoginFaults :
          Login(pr.provider, pr.id, pr.email, fp, MaxCapSteps)
    \/ Others(MaxCapSteps)

SpecCap == Init /\ [][NextCap]_vars

\* the requests and the background jobs when no datastore call fails
Quiet(maxSteps) ==
    \/ EndRequest
    \/ Cleanup
    \/ TtlExpire
    \/ \E r \in GateReqs : Profile(r, {}, maxSteps)
    \/ \E r \in GateReqs : LogoutOthers(r, {}, maxSteps)
    \/ \E r \in LogoutReqs : Logout(r, {}, maxSteps)
    \/ \E r \in LogoutAllReqs : LogoutAll(r, {}, maxSteps)

\* no datastore call fails; a profile may still fail the validators of the
\* user schema
QuietLoginFaults == {"none", "User.validate"}

NextNoFault ==
    \/ Tick(MaxQuietTicks, Durations)
    \/ \E pr \in LinkProfiles, fp \in QuietLoginFaults :
          Login(pr.provider, pr.id, pr.email, fp, MaxQuietSteps)
    \/ Quiet(MaxQuietSteps)

SpecNoFault == Init /\ [][NextNoFault]_vars

\* one user, with gate requests that are in flight while other requests run
NextRace ==
    \/ Tick(MaxRaceTicks, CapDurations)
    \/ \E pr \in CapProfiles : Login(pr.provider, pr.id, pr.email, "none", MaxRaceSteps)
    \/ \E r \in GateReqs : GateFind(r, MaxRaceSteps)
    \/ GateSave
    \/ Quiet(MaxRaceSteps)

SpecRace == Init /\ [][NextRace]_vars

\* the Token Issuer under every configuration of the two secrets
InitTok ==
    /\ pc = "idle"
    /\ steps = 0
    /\ now = 0
    /\ ticks = 0
    /\ env \in [ACCESS_TOKEN_SECRET : Secrets, REFRESH_TOKEN_SECRET : Secrets,
                ACCESS_TOKEN_EXPIRY : {ACCESS_TOKEN_EXPIRY},
                REFRESH_TOKEN_EXPIRY : {REFRESH_TOKEN_EXPIRY}]
    /\ users = <<>>
    /\ sessions = {}
    /\ issued = {}
    /\ resp = NoResp
    /\ tok = NoIssued
    /\ held = NoSession
    /\ jar = NoJar
    /\ job = NoJob
    /\ inflight = <<>>
    /\ revoked = {}
    /\ docs = <<>>

NextTok ==
    \/ Tick(MaxTokTicks, TokDurations)
    \/ \E u \in TokUsers, sel \in PayloadNames : IssueAccess(u, sel)
    \/ \E u \in TokUsers, sel \in PayloadNames : IssueRefresh(u, sel)

SpecTok == InitTok /\ [][NextTok]_vars

\* the cleanup job and its timer next to logins of one user; the delete of a
\* run may fail every time
NextJob ==
    \/ Tick(MaxJobTicks, CapDurations)
    \/ \E pr \in CapProfiles : Login(pr.provider, pr.id, pr.email, "none", MaxJobSteps)
    \/ EndRequest
    \/ StartCleanup
    \/ \E sig \in Signals : Signal(sig)
    \/ TimerFire
    \/ \E fails \in BOOLEAN : Attempt(fails)

SpecJob == Init /\ [][NextJob]_vars

\* logins of one user whose datastore phases interleave, two at a time
NextOverlap ==
    \/ Tick(MaxOverlapTicks, CapDurations)
    \/ \E pr \in CapProfiles : LoginRead(pr.provider, pr.id, pr.email, MaxOverlapSteps)
    \/ \E i \in 1..2 : LoginInsert(i)

SpecOverlap == Init /\ [][NextOverlap]_vars

\* the expiresIn the environment may configure for the tokens, in days
AccessExpiries == {ACCESS_TOKEN_EXPIRY, 2}
RefreshExpiries == {REFRESH_TOKEN_EXPIRY, 7}

\* the profiles of the callbacks: two people, a Google profile without an
\* email, and a profile without id and email
OAuthProfiles == Profiles \cup {OAuthProfile("google", "p1", NoEmail)}

\* the server under any configured token lifetimes
InitOAuth ==
    /\ pc = "idle"
    /\ steps = 0
    /\ now = 0
    /\ ticks = 0
    /\ env \in [ACCESS_TOKEN_SECRET : {"k1"}, REFRESH_TOKEN_SECRET : {"k2"},
                ACCESS_TOKEN_EXPIRY : AccessExpiries,
                REFRESH_TOKEN_EXPIRY : RefreshExpiries]
    /\ users = <<>>
    /\ sessions = {}
    /\ issued = {}
    /\ resp = NoResp
    /\ tok = NoIssued
    /\ held = NoSession
    /\ jar = NoJar
    /\ job = NoJob
    /\ inflight = <<>>
    /\ revoked = {}
    /\ docs = <<>>

\* the OAuth callbacks alone: any profile, any failing datastore call, any
\* answer of the provider
NextOAuth ==
    \/ Tick(MaxOAuthTicks, Durations)
    \/ \E pr \in OAuthProfiles, fp \in LoginFaults :
          Login(pr.provider, pr.id, pr.email, fp, MaxOAuthSteps)
    \/ \E p \in {"google", "github"}, hasCode \in BOOLEAN, post, get \in HttpStatuses :
          CallbackFails(p, hasCode, post, get, MaxOAuthSteps)
    \/ EndRequest

SpecOAuth == InitOAuth /\ [][NextOAuth]_vars

\* two people, requests through the gate and through optionalAuth with a
\* failing datastore call, and the handlers that end or deactivate sessions
NextGate ==
    \/ Tick(MaxGateTicks, Durations)
    \/ \E pr \in Profiles : Login(pr.provider, pr.id, pr.email, "none", MaxGateSteps)
    \/ \E u \in UserIds : DeactivateUser(u, MaxGateSteps)
    \/ \E r \in GateReqs, F \in Faults(ProfileOps) : Profile(r, F, MaxGateSteps)
    \/ \E r \in GateReqs, F \in Faults(GateOps) : Optional(r, F, MaxGateSteps)
    \/ \E r \in GateReqs, F \in Faults(GateOps) : LogoutOthers(r, F, MaxGateSteps)
    \/ \E r \in LogoutReqs : Logout(r, {}, MaxGateSteps)
    \/ EndRequest

SpecGate == Init /\ [][NextGate]_vars

\* one user and no failing datastore call; the cleanup keeps being executed
\* and succeeds, and every response is sent
NextLive ==
    \/ Tick(MaxLiveTicks, CapDurations)
    \/ \E pr \in CapProfiles : Login(pr.provider, pr.id, pr.email, "none", MaxLiveSteps)
    \/ Quiet(MaxLiveSteps)

SpecLive == Init /\ [][NextLive]_vars /\ WF_vars(Cleanup) /\ WF_vars(EndRequest)

(***************************************************************************)
(* Properties                                                              *)
(***************************************************************************)
\* the sessions of user u that count as active at time t
ActiveOf(S, u, t) == {s \in S : s.userId = u /\ s.isActive /\ s.expiresAt > t}

\* C1: when requests do not overlap, no user ever has more than
\* MAX_SESSIONS_PER_USER sessions with isActive = true and expiresAt in the
\* future.
SessionCap ==
    \A u \in UserIds : Cardinality(ActiveOf(sessions, u, now)) <= MAX_SESSIONS_PER_USER

\* a user at the cap whose oldest session the cap has deactivated
CapReached ==
    /\ pc = "idle"
    /\ \E u \in UserIds :
          /\ Cardinality(ActiveOf(sessions, u, now)) = MAX_SESSIONS_PER_USER
          /\ \E s \in sessions : s.userId = u /\ ~s.isActive

\* C2: a successful login of a user who has MAX_SESSIONS_PER_USER active
\* sessions leaves exactly that many active; the one session it deactivates
\* has the oldest lastUsed of them, and it still exists, with isActive = false,
\* after the login.
CapDeactivatesOldest ==
    [][(pc' = "responded" /\ resp'.op = "login" /\ resp'.code = "success"
        /\ Cardinality(ActiveOf(sessions, resp'.user, now)) = MAX_SESSIONS_PER_USER)
       => /\ Cardinality(ActiveOf(sessions', resp'.user, now)) = MAX_SESSIONS_PER_USER
          /\ \E d \in ActiveOf(sessions, resp'.user, now) :
                /\ [d EXCEPT !.isActive = FALSE] \in sessions'
                /\ \A k \in ActiveOf(sessions, resp'.user, now) \ {d} :
                      k \in sessions' /\ d.lastUsed <= k.lastUsed]_vars

\* the fourth login has answered: three sessions are active and the session
\* of the first login (lastUsed 0) is still stored, inactive
FourthLoginDone ==
    /\ pc = "responded"
    /\ resp.op = "login"
    /\ resp.code = "success"
    /\ Cardinality(ActiveOf(sessions, resp.user, now)) = MAX_SESSIONS_PER_USER
    /\ \E s \in sessions : s.userId = resp.user /\ ~s.isActive /\ s.lastUsed = 0

\* C3: after logout-all-others has answered 200, every session of the caller
\* with another accessToken is inactive, the session of the caller is active
\* and is the only active one, and the sessions of other users are unchanged.
LogoutOthersKeepsCaller ==
    [][(pc' = "responded" /\ resp'.op = "logoutOthers" /\ resp'.status = 200)
       => LET a == extractAccessToken(resp'.req)
              u == resp'.user
              Mine == {s \in sessions' : s.userId = u}
          IN /\ \A s \in Mine : s.accessToken # a => ~s.isActive
             /\ \E s \in Mine : s.accessToken = a /\ s.isActive
             /\ Cardinality({s \in Mine : s.isActive}) = 1
             /\ {s \in sessions' : s.userId # u} = {s \in sessions : s.userId # u}]_vars

\* logout-all-others has deactivated a session while another user has one
LogoutOthersDone ==
    /\ pc = "responded"
    /\ resp.op = "logoutOthers"
    /\ resp.status = 200
    /\ resp.sessionsDeleted > 0
    /\ \E s \in sessions : s.userId # resp.user

\* C4: after logout-all-others has answered 200, the loginCount of the caller
\* is exactly 1, whatever it was before.
LogoutOthersCountIsOne ==
    (pc = "responded" /\ resp.op = "logoutOthers" /\ resp.status = 200
     /\ resp.faults = {})
    => users[resp.user].loginCount = 1

\* C5: after POST /auth/logout-all has answered an authenticated user, no
\* session of that user remains and the loginCount of that user is 0.
LogoutAllRemovesAll ==
    (pc = "responded" /\ resp.op = "logoutAll" /\ resp.status = 200
     /\ resp.faults = {})
    => /\ \A s \in sessions : s.userId # resp.user
       /\ users[resp.user].loginCount = 0

\* C6: whenever POST /auth/logout deletes a session, the loginCount of the
\* owner of that session goes down by one (not below 0) and no other counter
\* changes, whatever the accessToken cookie is.
LogoutDecrementsOwner ==
    [][(pc' = "responded" /\ resp'.op = "logout" /\ resp'.faults = {})
       => \A d \in sessions :
             (d.refreshToken = resp'.req.rt /\ d.isActive /\ d \notin sessions')
             => users' = [users EXCEPT ![d.userId] = decrementLoginCount(@)]]_vars

\* C7: POST /auth/logout answers 200 for every combination of cookies and
\* every datastore failure; without a refreshToken cookie it reports
\* sessionsDeleted = 0 and no error.
LogoutAlways200 ==
    (pc = "responded" /\ resp.op = "logout")
    => /\ resp.status = 200
       /\ resp.req.rt = NoToken => (resp.sessionsDeleted = 0 /\ ~resp.error)

\* a logout without a refreshToken cookie, for a user the accessToken cookie
\* names, during which deleteMany failed
LogoutUnderFailure ==
    /\ pc = "responded"
    /\ resp.op = "logout"
    /\ resp.req.rt = NoToken
    /\ resp.user # NoUser
    /\ "Session.deleteMany" \in resp.faults

\* C8: in POST /auth/logout and POST /auth/logout-all the handler clears the
\* cookies before it issues any Session or User datastore call, and answers
\* 200 whatever fails.
CookiesClearedFirst ==
    (pc = "responded" /\ resp.op \in {"logout", "logoutAll"}
     /\ resp.cookies = "cleared")
    => (resp.early = 0 /\ resp.status = 200)

CrossKindRejected ==
    /\ tok.by = "generateAccessToken" => ~verifyRefreshToken(tok.token, env, now).ok
    /\ tok.by = "generateRefreshToken" => ~verifyAccessToken(tok.token, env, now).ok

\* C11: a request whose access token has expired is rejected by the gate
\* with "Access token has expired", and a request whose token is malformed
\* with "Invalid access token"; neither is reported as "Authentication
\* failed".
ExpiredReportedAsExpired ==
    (pc = "responded" /\ resp.op \in {"profile", "logoutOthers", "logoutAll"})
    => LET a == extractAccessToken(resp.req)
           r == JwtVerify(a, env.ACCESS_TOKEN_SECRET, now)
       IN /\ (a # NoToken /\ r = "TokenExpiredError")
                => (resp.status = 401 /\ resp.code = "Access token has expired")
          /\ (a # NoToken /\ r = "JsonWebTokenError")
                => (resp.status = 401 /\ resp.code = "Invalid access token")

NewUserCreated ==
    [][\A pr \in LinkProfiles, fp \in QuietLoginFaults :
          (/\ Login(pr.provider, pr.id, pr.email, fp, MaxQuietSteps)
           /\ findExistingUser(pr.provider, pr.id, pr.email) = {})
          => /\ Len(users') = Len(users) + 1
             /\ users'[Len(users')][providerIdField(pr.provider)] = pr.id
             /\ \A u \in UserIds : users'[u] = users[u]]_vars

\* C14: a login whose email is the email of an existing user without an id
\* for this provider writes the provider id onto that user, keeps its other
\* provider id, and leaves the number of users unchanged.
LinkBackfills ==
    [][\A pr \in LinkProfiles :
          (/\ Login(pr.provider, pr.id, pr.email, "none", MaxQuietSteps)
           /\ resp'.code = "success")
          => \A u \in UserIds :
                (users[u].email = pr.email /\ users[u][providerIdField(pr.provider)] = NoId)
                => /\ users'[u][providerIdField(pr.provider)] = pr.id
                   /\ \A f \in {"googleId", "githubId"} \ {providerIdField(pr.provider)} :
                         users'[u][f] = users[u][f]
                   /\ Len(users') = Len(users)]_vars

\* C15: every successful login adds exactly 1 to the loginCount of the user
\* it resolved and sets lastLoginAt, whether the user was created or linked;
\* a GitHub login with the email of a user created by one Google login
\* leaves one user with both provider ids and loginCount 2.
LoginIncrementsCount ==
    [][/\ (pc' = "responded" /\ resp'.op = "login" /\ resp'.code = "success")
          => LET u == resp'.user
                 before == IF u \in UserIds THEN users[u].loginCount ELSE 0
             IN /\ users'[u].loginCount = before + 1
                /\ users'[u].lastLoginAt = now
       /\ (/\ Login("github", "p2", "a@x.com", "none", MaxQuietSteps)
           /\ Len(users) = 1
           /\ users[1].googleId = "p1" /\ users[1].githubId = NoId
           /\ users[1].email = "a@x.com" /\ users[1].loginCount = 1)
          => (/\ Len(users') = 1
              /\ users'[1].googleId = "p1" /\ users'[1].githubId = "p2"
              /\ users'[1].loginCount = 2)]_vars

\* the Google login and then the GitHub login with the same email have
\* succeeded: one user, both provider ids, loginCount 2
LinkedBothProviders ==
    /\ pc = "responded"
    /\ resp.op = "login"
    /\ resp.code = "success"
    /\ Len(users) = 1
    /\ users[1].googleId = "p1" /\ users[1].githubId = "p2"
    /\ users[1].loginCount = 2
    /\ Cardinality(sessions) = 2

\* C16: in every reachable state the loginCount of every user is at least 0.
CountNonNegative == \A u \in UserIds : users[u].loginCount >= 0

\* a logout has deleted the session of one user and decremented another
\* user, whose loginCount is 0
CountAtFloor ==
    /\ pc = "responded"
    /\ resp.op = "logout"
    /\ resp.sessionsDeleted = 1
    /\ resp.user \in UserIds
    /\ resp.req.rt._id # resp.user
    /\ users[resp.user].loginCount = 0
    /\ sessions = {}

\* C17: when no call fails and requests do not overlap, after each operation
\* the loginCount of every user equals the number of its active sessions.
CountEqualsActive ==
    (pc = "responded" /\ ~resp.error)
    => \A u \in UserIds :
          users[u].loginCount = Cardinality(ActiveOf(sessions, u, now))

\* C18: in every reachable state no two stored sessions hold the same
\* refreshToken.
RefreshTokensUnique ==
    \A s1 \in sessions : \A s2 \in sessions :
        s1.refreshToken = s2.refreshToken => s1 = s2

\* a second login of a user within the same moment has been refused by the
\* unique index while the session of the first login is stored
DuplicateRefused ==
    /\ pc = "responded"
    /\ resp.op = "login"
    /\ resp.code = "email_exists"
    /\ resp.user # NoUser
    /\ \E s \in sessions : s.userId = resp.user /\ s.lastUsed = now

\* C19: a session whose isActive is false never has isActive true again; it
\* stays inactive or is deleted, also when a gate request read it before it
\* was deactivated and saves lastUsed afterwards.
InactiveStaysInactive ==
    [][\A s \in sessions :
          ~s.isActive => \A n \in sessions' : n._id = s._id => ~n.isActive]_vars

\* a gate request has saved lastUsed on a session that was deactivated after
\* the gate read it
SavedAfterDeactivation ==
    /\ pc = "responded"
    /\ resp.op = "profile"
    /\ resp.status = 200
    /\ \E s \in sessions : /\ s.accessToken = resp.req.at
                           /\ ~s.isActive

\* C20: when Session.cleanExpiredSessions completes, every session that had
\* expiresAt < now or isActive = false is gone, an expired session with
\* isActive = true included, and every session that was active and unexpired
\* is stored unchanged.
CleanupDeletesStale ==
    [][(pc' = "responded" /\ resp'.op = "cleanup")
       => \A s \in sessions :
             /\ (s.expiresAt < now \/ ~s.isActive)
                   => ~\E n \in sessions' : n._id = s._id
             /\ (s.isActive /\ s.expiresAt > now) => s \in sessions']_vars

\* the cleanup has deleted an expired session and kept an unexpired one
CleanupDone ==
    /\ pc = "responded"
    /\ resp.op = "cleanup"
    /\ resp.sessionsDeleted > 0
    /\ now > Days(REFRESH_TOKEN_EXPIRY_DAYS)
    /\ \E s \in sessions : s.isActive

\* C21: when the delete fails on every call, a run of the periodic cleanup
\* makes at most MAX_RETRY_ATTEMPTS delete attempts, waits 1s and then 2s
\* before its retries, and resolves with 0.
RetryGivesUpAfterThree ==
    (job.run.state = "done" /\ job.run.failures = job.run.attempts)
    => /\ job.run.attempts <= MAX_RETRY_ATTEMPTS
       /\ Len(job.run.waits) <= MAX_RETRY_ATTEMPTS - 1
       /\ \A k \in 1..Len(job.run.waits) : job.run.waits[k] = Pow2(k - 1)
       /\ job.run.result = 0

\* C26: once the periodic cleanup has been started, SIGINT or SIGTERM clears
\* the timer and no periodic tick fires until it is started anew; starting
\* it while it is running creates no second timer.
SignalStopsTimer ==
    [][/\ \A sig \in Signals :
             Signal(sig) => job'.timers = {} /\ job'.cleanupInterval = NoTimer
       /\ job'.fired > job.fired => job.cleanupInterval # NoTimer
       /\ (StartCleanup /\ job.cleanupInterval # NoTimer)
             => job'.timers = job.timers /\ job'.cleanupInterval = job.cleanupInterval
       /\ Cardinality(job'.timers) <= 1]_vars

\* the job was started twice, its timer fired, and a signal stopped it
TimerStopped ==
    /\ job.calls = 2
    /\ job.fired >= 1
    /\ job.registered
    /\ job.cleanupInterval = NoTimer
    /\ job.timers = {}

\* C22: with at most two logins of a user overlapping, the user never has
\* more than MAX_SESSIONS_PER_USER + 1 active sessions (and that many are
\* reachable, see OverCapByOne).
OverlapExceedsCapByOne ==
    \A u \in UserIds :
        Cardinality(ActiveOf(sessions, u, now)) <= MAX_SESSIONS_PER_USER + 1

\* two overlapping logins have both inserted: one session more than the cap
OverCapByOne ==
    /\ inflight = <<>>
    /\ \E u \in UserIds :
          Cardinality(ActiveOf(sessions, u, now)) = MAX_SESSIONS_PER_USER + 1

\* C23: every failed OAuth callback redirects with an error code of the set
\* {oauth_failed, invalid_request, unauthorized, no_code, email_exists,
\* validation_failed}.
ErrorCodesClosed ==
    (resp.op = "login" /\ resp.error)
    => resp.code \in {"oauth_failed", "invalid_request", "unauthorized", "no_code",
                      "email_exists", "validation_failed"}

\* C24: each OAuth callback ends in exactly one redirect; the cookies are set
\* only on the success redirect and hold the tokens of a stored session; a
\* failure redirect sets no auth cookie.
CookiesOnlyOnSuccess ==
    resp.op = "login"
    => /\ resp.redirects = 1
       /\ resp.error => (jar = NoJar /\ resp.cookies = "none")
       /\ (jar # NoJar \/ resp.cookies # "none")
            => /\ resp.code = "success"
               /\ \E s \in sessions : /\ s.accessToken = jar.accessToken
                                      /\ s.refreshToken = jar.refreshToken
                                      /\ s.userId = resp.user

\* a successful callback after a failed one: cookies set, the session stored
CookiesSetOnSuccess ==
    /\ resp.op = "login"
    /\ resp.code = "success"
    /\ jar # NoJar
    /\ steps >= 2
    /\ \E s \in sessions : s.accessToken = jar.accessToken

\* C27: a callback without a code makes no provider HTTP call, creates or
\* changes no user and no session, sets no cookie, and redirects with
\* error=no_code for its provider.
NoCodeFailsFast ==
    [][\A p \in {"google", "github"} :
          (pc = "idle" /\ resp'.op = "login" /\ resp'.req = CallbackReq(p, FALSE))
          => /\ resp'.http = 0
             /\ users' = users
             /\ sessions' = sessions
             /\ jar' = NoJar
             /\ resp'.cookies = "none"
             /\ resp'.redirects = 1
             /\ resp'.code = "no_code"]_vars

\* a callback without a code arrived when a user and a session existed
NoCodeRedirected ==
    /\ resp.op = "login"
    /\ resp.req = CallbackReq("github", FALSE)
    /\ resp.code = "no_code"
    /\ sessions # {}

\* C30: for every configured ACCESS_TOKEN_EXPIRY and REFRESH_TOKEN_EXPIRY, the
\* max-age of the accessToken cookie is the lifetime of the access token, and
\* the max-age of the refreshToken cookie and the session's expiresAt are the
\* lifetime of the refresh token.
MaxAgeMatchesLifetime ==
    (resp.op = "login" /\ resp.code = "success")
    => /\ jar.accessMaxAge = jar.accessToken.exp - jar.accessToken.iat
       /\ jar.refreshMaxAge = jar.refreshToken.exp - jar.refreshToken.iat
       /\ \A s \in sessions :
             s.refreshToken = jar.refreshToken => s.expiresAt = jar.refreshToken.exp

\* C25: optionalAuth never rejects a request, and it attaches a user exactly
\* when verifyJwtToken would have accepted the same request in the same state
\* with the same datastore failures.
OptionalMatchesGate ==
    [][(pc = "idle" /\ resp'.op = "optional")
       => /\ resp'.status = 200
          /\ ~resp'.error
          /\ resp'.user # NoUser
               <=> \E s0 \in GateSessions(resp'.req) :
                      verifyJwtToken(resp'.req, s0, resp'.faults).ok
          /\ \A s0 \in GateSessions(resp'.req) :
                verifyJwtToken(resp'.req, s0, resp'.faults).ok
                => resp'.user = verifyJwtToken(resp'.req, s0, resp'.faults).user]_vars

\* optionalAuth handed on a request whose token is good but whose session is
\* gone, without a user
OptionalWithoutUser ==
    /\ resp.op = "optional"
    /\ resp.user = NoUser
    /\ verifyAccessToken(extractAccessToken(resp.req), env, now).ok
    /\ resp.faults = {}
    /\ extractAccessToken(resp.req)._id \in UserIds
    /\ users[extractAccessToken(resp.req)._id].isActive

StaleEventuallyDeleted ==
    (\E s \in sessions : Stale(s, now)) ~> (\A s \in sessions : ~Stale(s, now))

\* the cleanup deleted the sessions a logout of the other devices had left
\* inactive, and kept the caller's
InactiveDeleted ==
    /\ resp.op = "cleanup"
    /\ resp.sessionsDeleted >= 1
    /\ \A s \in sessions : ~Stale(s, now)
    /\ \E s \in sessions : s.isActive /\ s.lastUsed > 0

\* the accounts of LinkProfiles, and a second github account registered with
\* the email of the first
IdentityProfiles == LinkProfiles \cup {OAuthProfile("github", "p3", "b@x.com")}

\* logins of accounts that share a provider id or an email; no call fails
NextIdentity ==
    \/ Tick(MaxIdentityTicks, Durations)
    \/ \E pr \in IdentityProfiles :
          Login(pr.provider, pr.id, pr.email, "none", MaxIdentitySteps)
    \/ EndRequest

SpecIdentity == Init /\ [][NextIdentity]_vars

\* one user whose logins overlap between the read and the save of the user
NextStale ==
    \/ Tick(MaxStaleTicks, CapDurations)
    \/ \E pr \in CapProfiles : Login(pr.provider, pr.id, pr.email, "none", MaxStaleSteps)
    \/ \E pr \in CapProfiles : LoginFind(pr.provider, pr.id, pr.email, MaxStaleSteps)
    \/ \E i \in 1..2 : LoginSave(i)
    \/ EndRequest

SpecStale == Init /\ [][NextStale]_vars

\* logins and logouts, each logout possibly sent twice; a datastore call of
\* a logout may fail
NextRepeat ==
    \/ Tick(MaxRepeatTicks, CapDurations)
    \/ \E pr \in Profiles : Login(pr.provider, pr.id, pr.email, "none", MaxRepeatSteps)
    \/ \E r \in LogoutReqs, F \in Faults(LogoutOps) : Logout(r, F, MaxRepeatSteps)
    \/ \E F \in Faults(LogoutOps) : LogoutAgain(F, MaxRepeatSteps)
    \/ EndRequest

SpecRepeat == Init /\ [][NextRepeat]_vars

\* C31: every session a logout of the other devices deactivates has a
\* loggedOutAt timestamp stored on its record.
LoggedOutAtStored ==
    [][(pc = "idle" /\ resp'.op = "logoutOthers")
       => \A s \in sessions : \A d \in sessions' :
             (d._id = s._id /\ s.isActive /\ ~d.isActive) => d.loggedOutAt # NoDate]_vars

\* C32: after a logout, a logout of the other devices or a logout of all
\* devices, the gate rejects the access token of every session the handler
\* deleted or deactivated, on every later request.
RevokedTokenRejected ==
    [][(/\ pc = "idle"
        /\ resp'.op \in {"profile", "logoutOthers", "logoutAll"}
        /\ extractAccessToken(resp'.req) \in revoked)
       => resp'.status = 401]_vars

\* C35: POST /auth/logout-all deletes sessions and resets the counter only
\* for the user the gate authenticated, whatever the refreshToken and
\* accessToken cookies are: no other user's sessions or counter change.
LogoutAllOnlyOwnUser ==
    [][(pc = "idle" /\ resp'.op = "logoutAll" /\ resp'.status = 200)
       => \A u \in UserIds :
             u # resp'.user
             => /\ users'[u] = users[u]
                /\ {s \in sessions' : s.userId = u} = {s \in sessions : s.userId = u}]_vars

\* C36: no session is created and no cookies are issued for a user whose
\* isActive flag is false: a login that resolves to a deactivated user does
\* not end in the success redirect.
NoLoginForDeactivated ==
    (resp.op = "login" /\ resp.code = "success") => users[resp.user].isActive

\* C37: every login mints a refresh token that differs from every stored
\* refresh token, so the insertion of the session never fails on the unique
\* index and no login of an existing user is reported as email_exists, also
\* when the same user logs in twice within the same second.
RefreshTokenFresh ==
    [][(pc = "idle" /\ resp'.op = "login" /\ resp'.user # NoUser)
       => /\ ~DuplicateKey(sessions, generateTokens(resp'.user, env, now).refreshToken)
          /\ resp'.code # "email_exists"]_vars

\* C33: after a successful login via provider P with provider id X, the
\* user the session and the cookies are issued for has its P-id field equal
\* to X.
LoginMatchesProviderId ==
    [][\A pr \in IdentityProfiles :
          (Login(pr.provider, pr.id, pr.email, "none", MaxIdentitySteps)
           /\ resp'.code = "success")
          => users'[resp'.user][providerIdField(pr.provider)] = pr.id]_vars

\* C34: no two user records hold the same provider id for the same provider.
ProviderIdsUnique ==
    \A u \in UserIds : \A v \in UserIds :
       u # v => /\ (users[u].googleId # NoId => users[u].googleId # users[v].googleId)
                /\ (users[u].githubId # NoId => users[u].githubId # users[v].githubId)

\* C38: when two logins of the same user overlap, both increments of the
\* counter take effect: the save of each login leaves loginCount one higher
\* than it was stored, also when the user was read before the other login's
\* save.
OverlappingLoginsBothCount ==
    [][\A i \in 1..2 :
          LoginSave(i)
          => users'[docs[i].user].loginCount = users[docs[i].user].loginCount + 1]_vars

====
